---------------------------- MODULE Spec2Model ----------------------------
(***************************************************************************)
(* Watch scanning, booking and notification engine of the Houston's        *)
(* reservation tracker: worker.py (scan cycles, expiry job),               *)
(* notifications.py (dedup, transport, notification log),                  *)
(* server_pg.py (post_watch, delete_watch) and the sqlite variant of the   *)
(* time parser in server.py.                                               *)
(*                                                                         *)
(* Strings that the code parses are sequences of one-character strings.    *)
(* Timestamps are minutes since midnight of day 0; a nullable column is    *)
(* <<>> (NULL) or <<t>>.                                                   *)
(***************************************************************************)
EXTENDS Integers, Sequences, FiniteSets, TLC

---------------------------------------------------------------------------
(* Characters and Python's string helpers                                  *)

DigitChars == <<"0", "1", "2", "3", "4", "5", "6", "7", "8", "9">>

IsDigit(c) == \E i \in 1..10 : DigitChars[i] = c

DigitVal(c) == (CHOOSE i \in 1..10 : DigitChars[i] = c) - 1

\* str.upper() on the letters that matter to the parser
Upper(c) ==
    CASE c = "a" -> "A"
      [] c = "p" -> "P"
      [] c = "m" -> "M"
      [] OTHER -> c

IsSpace(c) == c = " "

RECURSIVE LStrip(_)
LStrip(s) ==
    IF s # <<>> /\ IsSpace(Head(s)) THEN LStrip(Tail(s)) ELSE s

RECURSIVE RStrip(_)
RStrip(s) ==
    IF s # <<>> /\ IsSpace(s[Len(s)]) THEN RStrip(SubSeq(s, 1, Len(s) - 1)) ELSE s

\* str.strip()
Strip(s) == LStrip(RStrip(s))

\* number of characters of the longest run of digits of s starting at position i
RECURSIVE DigitRun(_, _)
DigitRun(s, i) ==
    IF i <= Len(s) /\ IsDigit(s[i]) THEN 1 + DigitRun(s, i + 1) ELSE 0

\* number of whitespace characters of s starting at position i  (\s*)
RECURSIVE SpaceRun(_, _)
SpaceRun(s, i) ==
    IF i <= Len(s) /\ IsSpace(s[i]) THEN 1 + SpaceRun(s, i + 1) ELSE 0

\* value of a non-empty sequence of digits
RECURSIVE DigitsToInt(_)
DigitsToInt(s) ==
    IF s = <<>> THEN 0
    ELSE 10 * DigitsToInt(SubSeq(s, 1, Len(s) - 1)) + DigitVal(s[Len(s)])

\* position of the first ":" of s at or after i, 0 when there is none
RECURSIVE FindColon(_, _)
FindColon(s, i) ==
    IF i > Len(s) THEN 0
    ELSE IF s[i] = ":" THEN i
    ELSE FindColon(s, i + 1)

\* t.split(":"): the first two parts, <<>> standing for a missing part
SplitColon(s) ==
    LET c1 == FindColon(s, 1)
        c2 == IF c1 = 0 THEN 0 ELSE FindColon(s, c1 + 1)
    IN  IF c1 = 0 THEN [n |-> 1, p0 |-> s, p1 |-> <<>>]
        ELSE [n  |-> 2,
              p0 |-> SubSeq(s, 1, c1 - 1),
              p1 |-> IF c2 = 0 THEN SubSeq(s, c1 + 1, Len(s))
                     ELSE SubSeq(s, c1 + 1, c2 - 1)]

\* int(s): surrounding whitespace and one sign are accepted, then digits only;
\* anything else raises ValueError
PyInt(s) ==
    LET t    == Strip(s)
        neg  == t # <<>> /\ Head(t) = "-"
        sign == t # <<>> /\ Head(t) \in {"-", "+"}
        d    == IF sign THEN Tail(t) ELSE t
    IN  IF d # <<>> /\ DigitRun(d, 1) = Len(d)
        THEN [err |-> FALSE, val |-> IF neg THEN 0 - DigitsToInt(d) ELSE DigitsToInt(d)]
        ELSE [err |-> TRUE, val |-> 0]

\* re.match(r'(\d+):(\d+)\s*(AM|PM)', t, re.IGNORECASE): anchored at the start of
\* t only, text after the match is allowed
ReMatchAmPm(t) ==
    LET n1 == DigitRun(t, 1)
        c  == n1 + 1
        n2 == DigitRun(t, c + 1)
        a  == c + 1 + n2 + SpaceRun(t, c + 1 + n2)
        ok == /\ n1 >= 1
              /\ c <= Len(t) /\ t[c] = ":"
              /\ n2 >= 1
              /\ a + 1 <= Len(t)
              /\ Upper(t[a]) \in {"A", "P"}
              /\ Upper(t[a + 1]) = "M"
    IN  IF ok
        THEN [matched |-> TRUE,
              h  |-> DigitsToInt(SubSeq(t, 1, n1)),
              mn |-> DigitsToInt(SubSeq(t, c + 1, c + n2)),
              ap |-> <<Upper(t[a]), Upper(t[a + 1])>>]
        ELSE [matched |-> FALSE, h |-> 0, mn |-> 0, ap |-> <<>>]

\* variant: no special case for 12
AmPmHour_plain(h, ap) == IF ap = <<"P", "M">> THEN h + 12 ELSE h

\* the 12-hour adjustment shared by both parsers
AmPmHour(h, ap) ==
    IF ap = <<"P", "M">> /\ h # 12 THEN h + 12
    ELSE IF ap = <<"A", "M">> /\ h = 12 THEN 0
    ELSE h

\* the 24-hour fallback: parts = t.split(":"); int(parts[0]) * 60 + int(parts[1])
SplitMinutes(t) ==
    LET parts == SplitColon(t)
        a     == PyInt(parts.p0)
        b     == PyInt(parts.p1)
    IN  IF parts.n < 2 \/ a.err \/ b.err
        THEN [err |-> TRUE, min |-> 0]
        ELSE [err |-> FALSE, min |-> a.val * 60 + b.val]

\* worker.py _time_str_to_minutes; err stands for the ValueError / IndexError raised
time_str_to_minutes(t0) ==
    LET t == Strip(t0)
        m == ReMatchAmPm(t)
    IN  IF m.matched
        THEN [err |-> FALSE, min |-> AmPmHour(m.h, m.ap) * 60 + m.mn]
        ELSE SplitMinutes(t)

\* 'AM' in t.upper() or 'PM' in t.upper()
RECURSIVE HasAmPm(_, _)
HasAmPm(t, i) ==
    IF i + 1 > Len(t) THEN FALSE
    ELSE IF Upper(t[i]) \in {"A", "P"} /\ Upper(t[i + 1]) = "M" THEN TRUE
    ELSE HasAmPm(t, i + 1)

\* server.py _time_str_to_minutes: no strip, and 0 for an AM/PM text the regex rejects
server_time_str_to_minutes(t) ==
    IF HasAmPm(t, 1)
    THEN LET m == ReMatchAmPm(t)
         IN  IF m.matched
             THEN [err |-> FALSE, min |-> AmPmHour(m.h, m.ap) * 60 + m.mn]
             ELSE [err |-> FALSE, min |-> 0]
    ELSE SplitMinutes(t)

\* two decimal digits, zero padded
TwoDigits(n) == <<DigitChars[(n \div 10) + 1], DigitChars[(n % 10) + 1]>>

\* decimal digits of 0..99 without padding
Dec(n) == IF n < 10 THEN <<DigitChars[n + 1]>> ELSE TwoDigits(n)

\* time.strftime("%H:%M") of a TIME column
strftime_HM(mins) == TwoDigits(mins \div 60) \o <<":">> \o TwoDigits(mins % 60)

\* start_min <= slot_min <= end_min of the matching loop; a parse error propagates
InWindow(start_str, end_str, slot_str) ==
    LET s == time_str_to_minutes(start_str)
        e == time_str_to_minutes(end_str)
        m == time_str_to_minutes(slot_str)
    IN  [err   |-> s.err \/ e.err \/ m.err,
         match |-> ~(s.err \/ e.err \/ m.err) /\ s.min <= m.min /\ m.min <= e.min]

\* the same test with the sqlite server's parser
server_InWindow(start_str, end_str, slot_str) ==
    LET s == server_time_str_to_minutes(start_str)
        e == server_time_str_to_minutes(end_str)
        m == server_time_str_to_minutes(slot_str)
    IN  [err   |-> s.err \/ e.err \/ m.err,
         match |-> ~(s.err \/ e.err \/ m.err) /\ s.min <= m.min /\ m.min <= e.min]

---------------------------------------------------------------------------
(* Program constants                                                       *)

\* hours_until >= 24 / < 24: the tier threshold, in hours
UrgentHours == 24

\* elapsed < 25 * 60: the re-scan buffer of the normal cadence, in minutes
RescanBufferMinutes == 25

\* was_recently_notified(..., minutes=60)
DedupMinutes == 60

MinutesPerDay == 24 * 60

Cadences == {"urgent", "normal"}

Channels == {"email", "sms"}

TEST_DOMAINS == {"@test.com", "@example.com", "@fake.com"}

\* keys of LOCATIONS that the model uses
LOCATIONS == {"peachtree", "west_paces"}

\* for anchor_hour in [12, 17, 21]
AnchorHours == <<12, 17, 21>>

NULL == <<>>

At(t) == <<t>>

---------------------------------------------------------------------------
(* Bounds and inputs                                                       *)

\* scan cycles started in one behaviour
MaxCycles == 2

\* injected failures (database errors, transport failures) in one behaviour
MaxFaults == 1

\* the users whose DELETE requests are enumerated
Requesters == {1}

\* clock readings taken after the first
MaxTicks == 3

\* the instants at which the clock is read: 23:30 of day 0, then 25, 59 and 60
\* minutes later (day 1 begins in between), then one day after the first
Instants == <<1410, 1435, 1469, 1470, 2850>>

UserIds == {1, 2}

\* users.email as (local part, domain); user 2 signed up with a test address
UserEmail ==
    [u \in UserIds |->
        IF u = 1 THEN [name |-> "ann", domain |-> "@gmail.com"]
        ELSE [name |-> "bob", domain |-> "@test.com"]]

\* request bodies of POST /api/watches, all with the window 18:00-20:00
WatchInput(user, loc, party, day, auto, first, last, phone) ==
    [user_id |-> user, location_key |-> loc, party_size |-> party, target_date |-> day,
     time_start |-> 18 * 60, time_end |-> 20 * 60, auto_book |-> auto,
     book_first_name |-> first, book_last_name |-> last, book_phone |-> phone]

\* notify only although the contact details are complete, tomorrow
InNotify == WatchInput(1, "peachtree", 2, 1, FALSE, "Ann", "Lee", "+15550001")

\* auto-book with complete contact details, two days ahead
InBook == WatchInput(1, "peachtree", 2, 2, TRUE, "Ann", "Lee", "+15550001")

\* auto-book without a last name, tomorrow, in the group of InNotify
InNoLast == WatchInput(2, "peachtree", 2, 1, TRUE, "Bob", "", "+15550002")

\* auto-book without first name and phone, today, another location and party size
InNoFirst == WatchInput(2, "west_paces", 4, 0, TRUE, "", "Ray", "")

WatchInputs == {InNotify, InBook, InNoLast, InNoFirst}

\* the watches tables the behaviours start from, as the requests that created them
Scenarios == {<<InBook>>, <<InNoLast, InNotify>>, <<InNoFirst, InNotify>>}

\* slots of the provider's inventory answers
Slot600 == [time |-> <<"6", ":", "0", "0", " ", "P", "M">>, reserved_ts |-> 1800]

Slot801 == [time |-> <<"8", ":", "0", "1", " ", "P", "M">>, reserved_ts |-> 2001]

SlotBad == [time |-> <<"T", "B", "D">>, reserved_ts |-> 0]

\* an anchor query whose request or JSON decoding failed: nothing was read
NoAnswer == [ok |-> FALSE, times |-> <<>>, read |-> 0]

\* an anchor query answered with the available slots `times`
Answer(times) == [ok |-> TRUE, times |-> times, read |-> Len(times)]

\* an anchor query that raised inside the loop over the decoded response, after
\* `read` of its available slots had been appended
BrokenAnswer(times, read) == [ok |-> FALSE, times |-> times, read |-> read]

\* what one anchor query may give in a scan cycle
AnchorAnswers(anchor_hour) ==
    CASE anchor_hour = 12 -> {NoAnswer, Answer(<<>>)}
      [] anchor_hour = 17 -> {NoAnswer, Answer(<<Slot600, Slot801>>)}
      [] OTHER -> {NoAnswer, Answer(<<Slot600>>), Answer(<<SlotBad>>)}

---------------------------------------------------------------------------
(* State                                                                   *)

VARIABLES
    now,            \* the wall clock, minutes since midnight of day 0
    watches,        \* the committed watches table, row i has id i
    userPhone,      \* users.phone
    nlog,           \* the committed notification_log table, in insertion order
    transport,      \* calls of send_email / send_sms, in order
    bookings,       \* booking requests submitted to the provider, in order
    cycle,          \* per cadence: the running scan_watches call and its last result
    cyclesStarted,  \* scan_watches calls so far
    faults,         \* injected failures so far
    audit,          \* per watch: the cycle count when its status left 'active',
                    \* the number of the cycle that last wrote last_scanned, and
                    \* the time of the last committed scan by a normal cycle
    tcase,          \* input of a pure-function specification
    tres,           \* its result
    runs            \* the scan cycles that each trigger has running, and the
                    \* thread pool of a cycle's inventory fetches

vars == <<now, watches, userPhone, nlog, transport, bookings, cycle, cyclesStarted,
          faults, audit, tcase, tres, runs>>

\* the ids of the rows of the watches table
WatchIds == {1, 2}

Ids == DOMAIN watches

Today(t) == t \div MinutesPerDay

\* local state of scan_watches between two calls
IdleCycle ==
    [pc |-> "idle", no |-> 0, now_dt |-> 0, user_phone |-> [u \in UserIds |-> ""],
     loaded |-> {}, scannable |-> {}, skipped |-> 0,
     fetched |-> <<>>, matches |-> <<>>, mi |-> 0, was_booked |-> FALSE,
     booked |-> <<>>, notified |-> 0, looked |-> <<>>,
     tx |-> <<>>, aborted |-> FALSE, outcome |-> "none", committed |-> {}]

NoCase == [form |-> "none", slot_min |-> 0, time_start |-> 0, time_end |-> 0]

\* no scan cycle is running: the two scheduler jobs of the worker have no
\* instance, the scanner loop of the sqlite server sleeps, no request is handled;
\* and no thread pool of a cycle is open
NoRuns ==
    [job |-> [c \in Cadences |-> <<>>], loop |-> "sleep", handlers |-> <<>>,
     pool |-> [phase |-> "idle", groups |-> 0, submitted |-> 0, queued |-> 0,
               running |-> 0, completed |-> 0, matched |-> 0, processed |-> 0]]

NoResult == [done |-> FALSE, worker |-> FALSE, server |-> FALSE, err |-> FALSE]

\* the row INSERTed by post_watch
NewRow(p) ==
    [user_id |-> p.user_id, location_key |-> p.location_key,
     party_size |-> p.party_size, target_date |-> p.target_date,
     time_start |-> p.time_start, time_end |-> p.time_end,
     auto_book |-> p.auto_book, book_first_name |-> p.book_first_name,
     book_last_name |-> p.book_last_name, book_phone |-> p.book_phone,
     status |-> "active", last_scanned |-> NULL, notified_at |-> NULL,
     booked_at |-> NULL]

\* POST /api/watches by an authenticated user: the watches table afterwards
post_watch_rows(ws, p) ==
    IF p.location_key \in LOCATIONS THEN Append(ws, NewRow(p)) ELSE ws

\* POST /api/watches: users.phone afterwards (saved when the user has none)
post_watch_phone(phones, p) ==
    IF p.location_key \in LOCATIONS /\ p.book_phone # "" /\ phones[p.user_id] = ""
    THEN [phones EXCEPT ![p.user_id] = p.book_phone]
    ELSE phones

\* the tables after the POST /api/watches requests of `inputs`, in order
RECURSIVE Created(_)
Created(inputs) ==
    IF inputs = <<>>
    THEN [watches |-> <<>>, userPhone |-> [u \in UserIds |-> ""]]
    ELSE LET db == Created(SubSeq(inputs, 1, Len(inputs) - 1))
             p  == inputs[Len(inputs)]
         IN  [watches   |-> post_watch_rows(db.watches, p),
              userPhone |-> post_watch_phone(db.userPhone, p)]

\* the watches were created before the worker's first cycle
Init ==
    /\ now = Instants[1]
    /\ \E inputs \in Scenarios :
          /\ watches = Created(inputs).watches
          /\ userPhone = Created(inputs).userPhone
    /\ nlog = <<>>
    /\ transport = <<>>
    /\ bookings = <<>>
    /\ cycle = [c \in Cadences |-> IdleCycle]
    /\ cyclesStarted = 0
    /\ faults = 0
    /\ audit = [i \in WatchIds |-> [term_since |-> NULL, scanned_by |-> NULL, normal_at |-> NULL]]
    /\ tcase = NoCase
    /\ tres = NoResult
    /\ runs = NoRuns

---------------------------------------------------------------------------
(* The store: transactions, row locks, expiry                              *)

\* rows on which cadence c's open transaction holds a row lock
LockedBy(c) == {cycle[c].tx[k].id : k \in DOMAIN cycle[c].tx}

\* an UPDATE of rows ids by actor who waits while another transaction locks one
LocksFree(who, ids) == \A d \in Cadences \ {who} : ids \cap LockedBy(d) = {}

ApplyWrite(row, w) ==
    [row EXCEPT !.status       = IF w.status = NULL THEN @ ELSE w.status[1],
                !.booked_at    = IF w.booked_at = NULL THEN @ ELSE w.booked_at,
                !.notified_at  = IF w.notified_at = NULL THEN @ ELSE w.notified_at,
                !.last_scanned = IF w.last_scanned = NULL THEN @ ELSE w.last_scanned]

\* conn.commit(): the pending writes of a transaction reach the table in order
RECURSIVE CommitWrites(_, _)
CommitWrites(ws, tx) ==
    IF tx = <<>> THEN ws
    ELSE CommitWrites([ws EXCEPT ![Head(tx).id] = ApplyWrite(@, Head(tx))], Tail(tx))

NoWrite(i) ==
    [id |-> i, status |-> NULL, booked_at |-> NULL, notified_at |-> NULL,
     last_scanned |-> NULL]

\* which kinds of write a transaction holds
WriteKinds(tx) ==
    {k \in {"booked", "notified_at", "last_scanned"} :
        \E j \in DOMAIN tx :
            \/ k = "booked" /\ tx[j].status # NULL
            \/ k = "notified_at" /\ tx[j].notified_at # NULL
            \/ k = "last_scanned" /\ tx[j].last_scanned # NULL}

\* variant: the UPDATE has no condition on the status
ExpiredRows_nostatus(ws, today) ==
    {i \in DOMAIN ws : ws[i].target_date < today}

\* variant: a watch for today counts as past
ExpiredRows_today(ws, today) ==
    {i \in DOMAIN ws : ws[i].status = "active" /\ ws[i].target_date <= today}

\* rows matched by  WHERE status='active' AND target_date < today
ExpiredRows(ws, today) ==
    {i \in DOMAIN ws : ws[i].status = "active" /\ ws[i].target_date < today}

\* UPDATE watches SET status='expired' WHERE status='active' AND target_date < %s
ExpireUpdate(ws, today) ==
    [i \in DOMAIN ws |->
        IF i \in ExpiredRows(ws, today) THEN [ws[i] EXCEPT !.status = "expired"]
        ELSE ws[i]]

\* bookkeeping: the cycle count at which a row's stored status left 'active'
AuditStatus(old, new) ==
    [i \in WatchIds |->
        IF /\ i \in DOMAIN old
           /\ old[i].status = "active"
           /\ new[i].status # "active"
           /\ audit[i].term_since = NULL
        THEN [audit[i] EXCEPT !.term_since = At(cyclesStarted)]
        ELSE audit[i]]

---------------------------------------------------------------------------
(* HTTP handlers and the maintenance job                                   *)

\* variant: the SELECT does not look at the owner
OwnedRows_any(ws, user, watch_id) ==
    {i \in DOMAIN ws : i = watch_id}

\* rows matched by  SELECT * FROM watches WHERE id=$1 AND user_id=$2
OwnedRows(ws, user, watch_id) ==
    {i \in DOMAIN ws : i = watch_id /\ ws[i].user_id = user}

\* UPDATE watches SET status='cancelled' WHERE id=$1
CancelUpdate(ws, watch_id) ==
    [i \in DOMAIN ws |->
        IF i = watch_id THEN [ws[i] EXCEPT !.status = "cancelled"] ELSE ws[i]]

\* DELETE /api/watches/{watch_id} by authenticated user `user`
delete_watch(user, watch_id) ==
    /\ IF OwnedRows(watches, user, watch_id) = {}
       THEN UNCHANGED <<watches, audit>>
       ELSE /\ LocksFree("none", {watch_id})
            /\ watches' = CancelUpdate(watches, watch_id)
            /\ audit' = AuditStatus(watches, watches')
    /\ UNCHANGED <<now, userPhone, nlog, transport, bookings, cycle, cyclesStarted,
                   faults, tcase, tres, runs>>

\* the hourly job expire_watches
expire_watches ==
    /\ LocksFree("none", ExpiredRows(watches, Today(now)))
    /\ watches' = ExpireUpdate(watches, Today(now))
    /\ audit' = AuditStatus(watches, watches')
    /\ UNCHANGED <<now, userPhone, nlog, transport, bookings, cycle, cyclesStarted,
                   faults, tcase, tres, runs>>

\* time passes: the clock moves to the next instant. A scan cycle is short against
\* the gaps between the instants, so the clock is not moved under a running cycle
Tick ==
    /\ \A c \in Cadences : cycle[c].pc = "idle"
    /\ \E k \in 1..(Len(Instants) - 1) :
          /\ k <= MaxTicks
          /\ now = Instants[k]
          /\ now' = Instants[k + 1]
    /\ UNCHANGED <<watches, userPhone, nlog, transport, bookings, cycle,
                   cyclesStarted, faults, audit, tcase, tres, runs>>

---------------------------------------------------------------------------
(* scan_watches                                                            *)

\* variant: the rate limit also skips a watch scanned exactly 25 minutes ago
Skipped_late(urgency, row, now_dt) ==
    LET minutes_until == row.target_date * MinutesPerDay - now_dt
    IN  \/ urgency = "urgent" /\ minutes_until >= UrgentHours * 60
        \/ urgency = "normal" /\ minutes_until < UrgentHours * 60
        \/ /\ urgency = "normal"
           /\ row.last_scanned # NULL
           /\ now_dt - row.last_scanned[1] <= RescanBufferMinutes

\* the tier and rate-limit filter of one loaded row: TRUE when it is skipped
Skipped(urgency, row, now_dt) ==
    LET minutes_until == row.target_date * MinutesPerDay - now_dt
    IN  \/ urgency = "urgent" /\ minutes_until >= UrgentHours * 60
        \/ urgency = "normal" /\ minutes_until < UrgentHours * 60
        \/ /\ urgency = "normal"
           /\ row.last_scanned # NULL
           /\ now_dt - row.last_scanned[1] < RescanBufferMinutes

\* variant: one group per user as well
GroupKey_user(row) ==
    <<row.location_key, row.target_date, row.party_size, row.user_id>>

\* key = (w["location_key"], date_str, w["party_size"])
GroupKey(row) == <<row.location_key, row.target_date, row.party_size>>

\* the keys of the groups dict
GroupKeys(ws, ids) == {GroupKey(ws[i]) : i \in ids}

\* a set of ids as a list in ascending order (the order of the SELECT)
RECURSIVE SortedIds(_)
SortedIds(ids) ==
    IF ids = {} THEN <<>>
    ELSE LET m == CHOOSE x \in ids : \A y \in ids : x <= y
         IN  <<m>> \o SortedIds(ids \ {m})

\* groups[key]
WatchList(ws, ids, key) == SortedIds({i \in ids : GroupKey(ws[i]) = key})

\* what scan_watches returns to its caller, and the state it leaves behind
Return(cy, outcome) ==
    [IdleCycle EXCEPT !.no = cy.no, !.outcome = outcome, !.committed = cy.committed,
                      !.scannable = IF outcome = "error" THEN {} ELSE cy.scannable,
                      !.skipped = IF outcome = "error" THEN 0 ELSE cy.skipped,
                      !.booked = IF outcome = "error" THEN <<>> ELSE cy.booked,
                      !.notified = IF outcome = "error" THEN 0 ELSE cy.notified]

\* variant: the load does not look at the status
ActiveRows_all(ws) == DOMAIN ws

\* rows of  SELECT ... FROM watches w JOIN users u ... WHERE w.status='active'
ActiveRows(ws) == {i \in DOMAIN ws : ws[i].status = "active"}

\* lines 165-226: expiry and its commit, the load, the tier filter, the grouping.
\* dberr names the statement that raises a database error: "expire" (the UPDATE,
\* nothing is committed), "load" (the SELECT, after the expiry was committed)
StartCycle(c, dberr) ==
    LET today    == Today(now)
        expired  == IF dberr = "expire" THEN {} ELSE ExpiredRows(watches, today)
        ws       == IF dberr = "expire" THEN watches ELSE ExpireUpdate(watches, today)
        loaded   == ActiveRows(ws)
        skip     == {i \in loaded : Skipped(c, ws[i], now)}
        cy       == [IdleCycle EXCEPT !.no = cyclesStarted + 1, !.now_dt = now,
                                      !.user_phone = userPhone,
                                      !.loaded = loaded,
                                      !.scannable = loaded \ skip,
                                      !.skipped = Cardinality(skip),
                                      !.committed = IF expired = {} THEN {}
                                                    ELSE {"expired"}]
    IN  /\ cycle[c].pc = "idle"
        /\ cyclesStarted < MaxCycles
        /\ dberr # "none" => faults < MaxFaults
        /\ faults' = IF dberr = "none" THEN faults ELSE faults + 1
        /\ LocksFree(c, expired)
        /\ watches' = ws
        /\ audit' = AuditStatus(watches, ws)
        /\ cyclesStarted' = cyclesStarted + 1
        /\ cycle' = [cycle EXCEPT ![c] =
              IF dberr # "none" THEN Return(cy, "error")
              ELSE IF loaded = {} THEN Return([cy EXCEPT !.skipped = 0], "ok")
              ELSE IF loaded \ skip = {} THEN Return(cy, "ok")
              ELSE [cy EXCEPT !.pc = "fetch"]]
        /\ UNCHANGED <<now, userPhone, nlog, transport, bookings, tcase, tres, runs>>

\* variant: the first failed anchor query ends the loop over the anchors
fetch_inventory_stop(loc_key, answers) ==
    IF loc_key \notin LOCATIONS THEN <<>>
    ELSE LET part(k) == SubSeq(answers[k].times, 1, answers[k].read)
         IN  IF ~answers[1].ok THEN part(1)
             ELSE IF ~answers[2].ok THEN part(1) \o part(2)
             ELSE part(1) \o part(2) \o part(3)

\* worker.py _fetch_inventory: the slots appended by the three anchor queries, in
\* anchor order: all of an answer that was read to its end, those read before the
\* exception of one that was not; answers[k] is the answer to AnchorHours[k]
fetch_inventory(loc_key, answers) ==
    IF loc_key \notin LOCATIONS THEN <<>>
    ELSE LET part(k) == SubSeq(answers[k].times, 1, answers[k].read)
         IN  part(1) \o part(2) \o part(3)

\* the requests _fetch_inventory sends: one urlopen per anchor, whatever it gives
fetch_requests(loc_key) == IF loc_key \notin LOCATIONS THEN 0 ELSE Len(AnchorHours)

\* every (watch, slot) pair of a group in the order of the matching loop
GroupPairs(ids, slots) ==
    LET n == Len(slots)
    IN  [k \in 1..(Len(ids) * n) |->
            [watch |-> ids[((k - 1) \div n) + 1], slot |-> slots[((k - 1) % n) + 1]]]

\* the window test of the matching loop on the strings it builds from a watch's
\* TIME columns and a slot's display time
WindowTest(q) == InWindow(strftime_HM(q[1]), strftime_HM(q[2]), q[3])

\* WindowTest on every window and display time of the inputs, evaluated once
WindowTable ==
    [q \in {<<p.time_start, p.time_end, s.time>> :
                p \in WatchInputs, s \in {Slot600, Slot801, SlotBad}} |-> WindowTest(q)]

\* the window test of one pair
PairWindow(ws, p) ==
    WindowTable[<<ws[p.watch].time_start, ws[p.watch].time_end, p.slot.time>>]

\* lines 228-248 for one completed future: one _fetch_inventory call for the
\* group, then the matching of every watch of the group against its slots
FetchGroup(c, key, answers) ==
    LET cy     == cycle[c]
        slots  == fetch_inventory(key[1], answers)
        pairs  == GroupPairs(WatchList(watches, cy.scannable, key), slots)
        raised == \E k \in DOMAIN pairs : PairWindow(watches, pairs[k]).err
        found  == SelectSeq(pairs, LAMBDA p : PairWindow(watches, p).match)
        done   == Append(cy.fetched, [key |-> key, slots |-> slots])
        all    == Len(done) = Cardinality(GroupKeys(watches, cy.scannable))
        ms     == cy.matches \o found
    IN  /\ cy.pc = "fetch"
        /\ key \in GroupKeys(watches, cy.scannable)
        /\ \A k \in DOMAIN cy.fetched : cy.fetched[k].key # key
        /\ cycle' = [cycle EXCEPT ![c] =
              IF raised THEN Return(cy, "error")
              ELSE [cy EXCEPT !.fetched = done, !.matches = ms,
                              !.mi = IF all /\ ms # <<>> THEN 1 ELSE 0,
                              !.pc = IF ~all THEN "fetch"
                                     ELSE IF ms = <<>> THEN "finish" ELSE "book"]]
        /\ UNCHANGED <<now, watches, userPhone, nlog, transport, bookings,
                       cyclesStarted, faults, audit, tcase, tres, runs>>

\* variant: the auto_book flag is not consulted
BookEligible_noflag(row) ==
    row.book_first_name # "" /\ row.book_phone # ""

\* if w["auto_book"] and w.get("book_first_name") and w.get("book_phone")
BookEligible(row) ==
    row.auto_book /\ row.book_first_name # "" /\ row.book_phone # ""

\* UPDATE watches SET status='booked', booked_at=NOW() WHERE id=%s
BookedWrite(i, t) == [NoWrite(i) EXCEPT !.status = At("booked"), !.booked_at = At(t)]

\* variant: the UPDATE is issued whatever the provider answered
BookUpdate_always(tx, i, ok, t) == Append(tx, BookedWrite(i, t))

\* what a booking attempt with provider result ok leaves pending in the transaction
BookUpdate(tx, i, ok, t) == IF ok THEN Append(tx, BookedWrite(i, t)) ELSE tx

\* lines 253-265 for the current match: the booking attempt. ok is the provider's
\* answer (a party in the response body); dberr is a database error raised by the
\* UPDATE, which it also raises when the transaction is already aborted
Book(c, ok, dberr) ==
    LET cy     == cycle[c]
        i      == cy.matches[cy.mi].watch
        r      == [cycle |-> cy.no, watch_id |-> i, ok |-> ok]
        raised == ok /\ (dberr \/ cy.aborted)
    IN  /\ cy.pc = "book"
        /\ dberr => ok /\ ~cy.aborted /\ BookEligible(watches[i]) /\ faults < MaxFaults
        /\ faults' = IF dberr THEN faults + 1 ELSE faults
        /\ IF ~BookEligible(watches[i])
           THEN /\ ~ok
                /\ cycle' = [cycle EXCEPT ![c].pc = "email", ![c].was_booked = FALSE]
                /\ UNCHANGED bookings
           ELSE /\ bookings' = Append(bookings, r)
                /\ IF raised
                   THEN cycle' = [cycle EXCEPT ![c] = Return(cy, "error")]
                   ELSE /\ ok => LocksFree(c, {i})
                        /\ cycle' = [cycle EXCEPT
                              ![c].pc = "email",
                              ![c].was_booked = ok,
                              ![c].tx = BookUpdate(cy.tx, i, ok, now),
                              ![c].booked = IF ok THEN Append(@, i) ELSE @]
        /\ UNCHANGED <<now, watches, userPhone, nlog, transport, cyclesStarted,
                       audit, tcase, tres, runs>>

---------------------------------------------------------------------------
(* notifications.py                                                        *)

\* any(email.lower().endswith(d) for d in TEST_DOMAINS)
is_test_email(email) == email.domain \in TEST_DOMAINS

\* whether notify_slot_found has a recipient on a channel: user_email and not a
\* test address; book_phone or the user_phone loaded with the watch
HasRecipient(row, user_phone, ch) ==
    IF ch = "email" THEN ~is_test_email(UserEmail[row.user_id])
    ELSE row.book_phone # "" \/ user_phone[row.user_id] # ""

\* variant: half the window
was_recently_notified_half(log, watch_id, channel, t) ==
    \E k \in DOMAIN log :
        /\ log[k].watch_id = watch_id
        /\ log[k].channel = channel
        /\ log[k].status = "sent"
        /\ log[k].created_at > t - (DedupMinutes \div 2)

\* the SELECT of was_recently_notified at time t
was_recently_notified(log, watch_id, channel, t) ==
    \E k \in DOMAIN log :
        /\ log[k].watch_id = watch_id
        /\ log[k].channel = channel
        /\ log[k].status = "sent"
        /\ log[k].created_at > t - DedupMinutes

\* the row INSERTed by log_notification
LogRow(watch_id, channel, ok, t) ==
    [watch_id |-> watch_id, channel |-> channel,
     status |-> IF ok THEN "sent" ELSE "failed", created_at |-> t]

\* variant: every notification announces a booking
action_always(was_booked) == "Auto-booked"

\* action = "Auto-booked" if was_booked else "Available"
action(was_booked) == IF was_booked THEN "Auto-booked" ELSE "Available"

AfterChannel(ch) == IF ch = "email" THEN "sms" ELSE "mark"

\* notify_slot_found, one channel: the recipient test, the dedup lookup, the
\* transport call and log_notification with its commit, as one step: nothing else
\* reads or writes notification_log while no other cycle is running.
\*   dbok  = FALSE: a database error in the lookup; it is logged, the lookup
\*                  answers False and the connection's transaction is left aborted
\*   ok           : the result of send_email / send_sms
\*   logok = FALSE: a database error in the INSERT; it is logged and swallowed,
\*                  nothing is committed and the transaction is left aborted
Notify(c, dbok, ok, logok) ==
    LET cy     == cycle[c]
        ch     == cy.pc
        i      == cy.matches[cy.mi].watch
        failed == cy.aborted \/ ~dbok
        recent == ~failed /\ was_recently_notified(nlog, i, ch, now)
        sends  == HasRecipient(watches[i], cy.user_phone, ch) /\ ~recent
        cost   == (IF dbok THEN 0 ELSE 1) + (IF ok THEN 0 ELSE 1)
                      + (IF logok THEN 0 ELSE 1)
        logged == sends /\ logok /\ ~failed
        call   == [cycle |-> cy.no, watch_id |-> i, channel |-> ch,
                   booked |-> cy.was_booked, action |-> action(cy.was_booked),
                   ok |-> ok, at |-> now,
                   lookup |-> IF failed THEN "error" ELSE "clear",
                   seen |-> Len(nlog)]
    IN  /\ cy.pc \in Channels
        /\ ~HasRecipient(watches[i], cy.user_phone, ch) => dbok
        /\ ~dbok => ~cy.aborted
        /\ ~sends => ok /\ logok
        /\ ~logok => ~failed
        /\ faults + cost <= MaxFaults
        /\ faults' = faults + cost
        /\ transport' = IF sends THEN Append(transport, call) ELSE transport
        /\ nlog' = IF logged THEN Append(nlog, LogRow(i, ch, ok, now)) ELSE nlog
        /\ watches' = IF logged THEN CommitWrites(watches, cy.tx) ELSE watches
        /\ audit' = AuditStatus(watches, watches')
        /\ cycle' = [cycle EXCEPT
              ![c].pc = AfterChannel(ch),
              ![c].aborted = failed \/ ~logok,
              ![c].tx = IF logged THEN <<>> ELSE @,
              ![c].committed = IF logged THEN @ \cup {"log"} \cup WriteKinds(cy.tx)
                               ELSE @]
        /\ UNCHANGED <<now, userPhone, bookings, cyclesStarted, tcase, tres, runs>>

\* notify_slot_found, one channel, up to the answer of was_recently_notified:
\* the recipient test and the dedup lookup. A channel without recipient and a
\* suppressed notification end here; otherwise the cycle goes on to the send
Lookup(c, dbok) ==
    LET cy     == cycle[c]
        ch     == cy.pc
        i      == cy.matches[cy.mi].watch
        has    == HasRecipient(watches[i], cy.user_phone, ch)
        failed == cy.aborted \/ ~dbok
        recent == ~failed /\ was_recently_notified(nlog, i, ch, now)
    IN  /\ cy.pc \in Channels
        /\ cy.looked = NULL
        /\ ~has => dbok
        /\ ~dbok => ~cy.aborted /\ faults < MaxFaults
        /\ faults' = IF dbok THEN faults ELSE faults + 1
        /\ cycle' = [cycle EXCEPT
              ![c].pc = IF has /\ ~recent THEN ch ELSE AfterChannel(ch),
              ![c].aborted = IF has THEN failed ELSE @,
              ![c].looked = IF has /\ ~recent
                            THEN At([lookup |-> IF failed THEN "error" ELSE "clear",
                                     seen |-> Len(nlog)])
                            ELSE NULL]
        /\ UNCHANGED <<now, watches, userPhone, nlog, transport, bookings,
                       cyclesStarted, audit, tcase, tres, runs>>

\* notify_slot_found, one channel, after a lookup that found nothing: the
\* transport call and log_notification with its commit
Send(c, ok, logok) ==
    LET cy     == cycle[c]
        ch     == cy.pc
        i      == cy.matches[cy.mi].watch
        cost   == (IF ok THEN 0 ELSE 1) + (IF logok THEN 0 ELSE 1)
        logged == logok /\ ~cy.aborted
        call   == [cycle |-> cy.no, watch_id |-> i, channel |-> ch,
                   booked |-> cy.was_booked, action |-> action(cy.was_booked),
                   ok |-> ok, at |-> now,
                   lookup |-> cy.looked[1].lookup, seen |-> cy.looked[1].seen]
    IN  /\ cy.pc \in Channels
        /\ cy.looked # NULL
        /\ ~logok => ~cy.aborted
        /\ faults + cost <= MaxFaults
        /\ faults' = faults + cost
        /\ transport' = Append(transport, call)
        /\ nlog' = IF logged THEN Append(nlog, LogRow(i, ch, ok, now)) ELSE nlog
        /\ watches' = IF logged THEN CommitWrites(watches, cy.tx) ELSE watches
        /\ audit' = AuditStatus(watches, watches')
        /\ cycle' = [cycle EXCEPT
              ![c].pc = AfterChannel(ch),
              ![c].looked = NULL,
              ![c].aborted = cy.aborted \/ ~logok,
              ![c].tx = IF logged THEN <<>> ELSE @,
              ![c].committed = IF logged THEN @ \cup {"log"} \cup WriteKinds(cy.tx)
                               ELSE @]
        /\ UNCHANGED <<now, userPhone, bookings, cyclesStarted, tcase, tres, runs>>

---------------------------------------------------------------------------
(* scan_watches, continued                                                 *)

\* variant: the UPDATE also closes the watch
NotifiedWrite_closed(i, t) ==
    [NoWrite(i) EXCEPT !.notified_at = At(t), !.status = At("notified")]

\* UPDATE watches SET notified_at=NOW() WHERE id=%s
NotifiedWrite(i, t) == [NoWrite(i) EXCEPT !.notified_at = At(t)]

\* lines 270-273 for the current match, then the next match or the end of the
\* loop. dberr is a database error raised by the UPDATE
Mark(c, dberr) ==
    LET cy     == cycle[c]
        i      == cy.matches[cy.mi].watch
        more   == cy.mi < Len(cy.matches)
        raised == ~cy.was_booked /\ (dberr \/ cy.aborted)
    IN  /\ cy.pc = "mark"
        /\ dberr => ~cy.was_booked /\ ~cy.aborted /\ faults < MaxFaults
        /\ faults' = IF dberr THEN faults + 1 ELSE faults
        /\ IF raised
           THEN cycle' = [cycle EXCEPT ![c] = Return(cy, "error")]
           ELSE /\ ~cy.was_booked => LocksFree(c, {i})
                /\ cycle' = [cycle EXCEPT
                      ![c].tx = IF cy.was_booked THEN @
                                ELSE Append(@, NotifiedWrite(i, now)),
                      ![c].notified = @ + 1,
                      ![c].was_booked = FALSE,
                      ![c].mi = IF more THEN @ + 1 ELSE 0,
                      ![c].pc = IF more THEN "book" ELSE "finish"]
        /\ UNCHANGED <<now, watches, userPhone, nlog, transport, bookings,
                       cyclesStarted, audit, tcase, tres, runs>>

\* variant: only the first scanned watch is written
ScannedWrites_first(ids, t) ==
    [k \in 1..(IF ids = <<>> THEN 0 ELSE 1) |->
        [NoWrite(ids[k]) EXCEPT !.last_scanned = At(t)]]

\* UPDATE watches SET last_scanned=NOW() WHERE id = ANY(%s)
ScannedWrites(ids, t) ==
    [k \in 1..Len(ids) |-> [NoWrite(ids[k]) EXCEPT !.last_scanned = At(t)]]

\* lines 275-304: last_scanned for every scanned watch, the commit, the result.
\* dberr is a database error raised by the UPDATE or the commit; the handler of
\* lines 299-302 rolls the open transaction back
Finish(c, dberr) ==
    LET cy == cycle[c]
        tx == cy.tx \o ScannedWrites(SortedIds(cy.scannable), now)
    IN  /\ cy.pc = "finish"
        /\ dberr => ~cy.aborted /\ faults < MaxFaults
        /\ faults' = IF dberr THEN faults + 1 ELSE faults
        /\ IF dberr \/ cy.aborted
           THEN /\ cycle' = [cycle EXCEPT ![c] = Return(cy, "error")]
                /\ UNCHANGED <<watches, audit>>
           ELSE /\ LocksFree(c, cy.scannable)
                /\ watches' = CommitWrites(watches, tx)
                /\ audit' = [i \in WatchIds |->
                      IF i \in cy.scannable
                      THEN [AuditStatus(watches, watches')[i] EXCEPT
                               !.scanned_by = At(cy.no),
                               !.normal_at = IF c = "normal" THEN At(now) ELSE @]
                      ELSE AuditStatus(watches, watches')[i]]
                /\ cycle' = [cycle EXCEPT ![c] =
                      Return([cy EXCEPT !.committed = @ \cup WriteKinds(tx)], "ok")]
        /\ UNCHANGED <<now, userPhone, nlog, transport, bookings, cyclesStarted,
                       tcase, tres, runs>>

---------------------------------------------------------------------------
(* Specification of the system                                             *)

\* no scan cycle of the other cadence is running
Serial(c) == \A d \in Cadences \ {c} : cycle[d].pc = "idle"

\* The schedules of this specification: a job never overlaps itself
\* (max_instances = 1), and a scan cycle of one cadence starts only while none of
\* the other cadence is running. Cancellations and the expiry job interleave
\* freely with the steps of a running cycle.
Next ==
    \/ \E u \in Requesters, i \in WatchIds : delete_watch(u, i)
    \/ expire_watches
    \/ Tick
    \/ \E c \in Cadences, dberr \in {"none", "expire", "load"} :
          Serial(c) /\ StartCycle(c, dberr)
    \/ \E c \in Cadences, a12 \in AnchorAnswers(12), a17 \in AnchorAnswers(17),
          a21 \in AnchorAnswers(21), i \in WatchIds :
            /\ i \in Ids
            /\ FetchGroup(c, GroupKey(watches[i]), <<a12, a17, a21>>)
    \/ \E c \in Cadences, ok \in BOOLEAN, dberr \in BOOLEAN : Book(c, ok, dberr)
    \/ \E c \in Cadences, dbok \in BOOLEAN, ok \in BOOLEAN, logok \in BOOLEAN :
          Notify(c, dbok, ok, logok)
    \/ \E c \in Cadences, dberr \in BOOLEAN : Mark(c, dberr)
    \/ \E c \in Cadences, dberr \in BOOLEAN : Finish(c, dberr)

Spec == Init /\ [][Next]_vars

---------------------------------------------------------------------------
(* Specification of the time-window check as a pure function               *)

\* watch windows (time_start, time_end) in minutes of the day
Windows ==
    {<<18 * 60, 20 * 60>>, <<0, 12 * 60>>, <<12 * 60, 13 * 60>>,
     <<11 * 60 + 30, 23 * 60 + 59>>}

\* the minutes around the two ends of a window
EdgeMinutes(w) ==
    {m \in {w[1] - 1, w[1], w[1] + 1, w[2] - 1, w[2], w[2] + 1} :
        m >= 0 /\ m < MinutesPerDay}

\* how the provider may write a display time
Forms == {"HH:MM", "H:MM AM/PM", "h:mmam/pm"}

\* the display time of minute m of the day in a form
Display(form, m) ==
    LET h   == m \div 60
        h12 == IF h % 12 = 0 THEN 12 ELSE h % 12
        hm  == Dec(h12) \o <<":">> \o TwoDigits(m % 60)
    IN  CASE form = "HH:MM" -> strftime_HM(m)
          [] form = "H:MM AM/PM" ->
                hm \o (IF h < 12 THEN <<" ", "A", "M">> ELSE <<" ", "P", "M">>)
          [] OTHER -> hm \o (IF h < 12 THEN <<"a", "m">> ELSE <<"p", "m">>)

InitTime ==
    /\ now = Instants[1]
    /\ watches = <<>>
    /\ userPhone = [u \in UserIds |-> ""]
    /\ nlog = <<>>
    /\ transport = <<>>
    /\ bookings = <<>>
    /\ cycle = [c \in Cadences |-> IdleCycle]
    /\ cyclesStarted = 0
    /\ faults = 0
    /\ audit = [i \in WatchIds |-> [term_since |-> NULL, scanned_by |-> NULL, normal_at |-> NULL]]
    /\ \E w \in Windows, form \in Forms :
          \E m \in EdgeMinutes(w) :
              tcase = [form |-> form, slot_min |-> m, time_start |-> w[1],
                       time_end |-> w[2]]
    /\ tres = NoResult
    /\ runs = NoRuns

\* the window test of the matching loop on one (watch, slot) pair, by the worker's
\* parser and by the sqlite server's
match_window ==
    LET start_str == strftime_HM(tcase.time_start)
        end_str   == strftime_HM(tcase.time_end)
        slot_str  == Display(tcase.form, tcase.slot_min)
        w         == InWindow(start_str, end_str, slot_str)
        v         == server_InWindow(start_str, end_str, slot_str)
    IN  /\ ~tres.done
        /\ tres' = [done |-> TRUE, worker |-> w.match, server |-> v.match,
                    err |-> w.err \/ v.err]
        /\ UNCHANGED <<now, watches, userPhone, nlog, transport, bookings, cycle,
                       cyclesStarted, faults, audit, tcase, runs>>

NextTime == match_window

SpecTime == InitTime /\ [][NextTime]_vars

---------------------------------------------------------------------------
(* Properties                                                              *)

\* a step in which the expiry UPDATE ran: the maintenance job, or the start of a
\* scan cycle whose expiry statement did not raise
ExpiryStep ==
    \/ expire_watches
    \/ \E c \in Cadences, dberr \in {"none", "load"} : StartCycle(c, dberr)

\* C1: after the expiry step (start of a scan cycle, or the expire_watches job)
\* every watch that was active with target_date before today is expired, and every
\* other watch keeps its status; nothing but the date comparison decides
C1_Expiry ==
    [][ExpiryStep =>
          \A i \in Ids :
              IF watches[i].status = "active" /\ watches[i].target_date < Today(now)
              THEN watches'[i].status = "expired"
              ELSE watches'[i].status = watches[i].status]_vars

\* C1 witness: a scan cycle committed an expiry that left a watch for today or
\* later active
C1_Witness ==
    \E c \in Cadences, i \in Ids, j \in Ids :
        /\ "expired" \in cycle[c].committed
        /\ watches[i].status = "expired"
        /\ watches[j].status = "active"
        /\ watches[j].target_date >= Today(now)

\* C2: no booking request is ever submitted for a watch with auto_book = false and
\* its status, stored or pending in a transaction, never becomes booked
C2_NoBookingWithoutFlag ==
    /\ \A k \in DOMAIN bookings : watches[bookings[k].watch_id].auto_book
    /\ \A i \in Ids : watches[i].status = "booked" => watches[i].auto_book
    /\ \A c \in Cadences : \A k \in DOMAIN cycle[c].tx :
          cycle[c].tx[k].status = At("booked") => watches[cycle[c].tx[k].id].auto_book

\* C2 witness: a watch with auto_book = false and complete contact details matched
\* a slot and its notification reached the transport
C2_Witness ==
    \E k \in DOMAIN transport :
        /\ ~watches[transport[k].watch_id].auto_book
        /\ watches[transport[k].watch_id].book_first_name # ""
        /\ watches[transport[k].watch_id].book_phone # ""

\* first name, last name and phone are all present
ContactComplete(row) ==
    row.book_first_name # "" /\ row.book_last_name # "" /\ row.book_phone # ""

\* C3: for a watch with auto_book = true and an incomplete booking contact (first
\* name, last name or phone missing) no booking is attempted and the status never
\* becomes booked
C3_NoBookingIfIncomplete ==
    /\ \A k \in DOMAIN bookings : ContactComplete(watches[bookings[k].watch_id])
    /\ \A i \in Ids : watches[i].status = "booked" => ContactComplete(watches[i])

\* the pcs of a scan cycle after its last fetch completed
AfterFetch == {"book", "email", "sms", "mark", "finish"}

\* the slots matched for watch i, in the order of the matches
RECURSIVE SlotsOf(_, _)
SlotsOf(ms, i) ==
    IF ms = <<>> THEN <<>>
    ELSE (IF Head(ms).watch = i THEN <<Head(ms).slot>> ELSE <<>>) \o SlotsOf(Tail(ms), i)

\* C4: in one scan cycle the number of inventory fetches equals the number of
\* distinct (location_key, target_date, party_size) tuples of the scannable
\* watches, one fetch per tuple, and every scannable watch is matched against the
\* slots of the one fetch of its tuple
C4_OneFetchPerGroup ==
    \A c \in Cadences :
        LET cy     == cycle[c]
            tuples == {<<watches[i].location_key, watches[i].target_date,
                         watches[i].party_size>> : i \in cy.scannable}
            fetchOf(i) ==
                CHOOSE k \in DOMAIN cy.fetched :
                    cy.fetched[k].key = <<watches[i].location_key,
                                          watches[i].target_date, watches[i].party_size>>
        IN  /\ cy.pc = "fetch" => Len(cy.fetched) < Cardinality(tuples)
            /\ cy.pc \in AfterFetch =>
                  /\ Len(cy.fetched) = Cardinality(tuples)
                  /\ {cy.fetched[k].key : k \in DOMAIN cy.fetched} = tuples
                  /\ \A i \in cy.scannable :
                        SlotsOf(cy.matches, i) =
                            SelectSeq(cy.fetched[fetchOf(i)].slots,
                                      LAMBDA sl : PairWindow(watches,
                                                     [watch |-> i, slot |-> sl]).match)
                  /\ \A k \in DOMAIN cy.matches : cy.matches[k].watch \in cy.scannable

\* C4 witness: two scannable watches share one tuple, one fetch was made and both
\* watches matched a slot of it
C4_Witness ==
    \E c \in Cadences :
        /\ cycle[c].pc = "book"
        /\ Cardinality(cycle[c].scannable) = 2
        /\ Len(cycle[c].fetched) = 1
        /\ \A i \in cycle[c].scannable : SlotsOf(cycle[c].matches, i) # <<>>

C6_WindowInclusive ==
    tres.done =>
        LET inside == tcase.time_start <= tcase.slot_min
                          /\ tcase.slot_min <= tcase.time_end
        IN  /\ ~tres.err
            /\ tres.worker <=> inside
            /\ tres.server <=> inside

\* C6 witness: 12:00 PM was tested against a window that ends at minute 720 and
\* matched
C6_Witness ==
    /\ tres.done
    /\ tcase.form = "H:MM AM/PM"
    /\ tcase.slot_min = 12 * 60
    /\ tcase.time_end = 12 * 60
    /\ tres.worker

\* C7: when the booking call for a watch with auto_book = true and complete contact
\* details succeeded, the watch's status is booked and booked_at is set once the
\* cycle has committed
C7_BookedAfterCommit ==
    [][\A c \in Cadences :
          cycle[c].pc = "finish" /\ cycle'[c].pc = "idle" /\ cycle'[c].outcome = "ok"
          => \A k \in DOMAIN cycle[c].booked :
                LET i == cycle[c].booked[k]
                IN  ContactComplete(watches[i]) =>
                        watches'[i].status = "booked" /\ watches'[i].booked_at # NULL]_vars

Terminal == {"booked", "expired", "cancelled"}

\* C8: a watch whose stored status is booked, expired or cancelled when a cycle
\* loads its watches stays out of that cycle and of every later one: it is not
\* loaded, no booking request and no notification is made for it, its last_scanned
\* is not written, and its status is never active again
C8_TerminalExcluded ==
    \A i \in Ids :
        audit[i].term_since # NULL =>
            LET n == audit[i].term_since[1]
            IN  /\ watches[i].status \in Terminal
                /\ \A c \in Cadences :
                      cycle[c].pc # "idle" /\ cycle[c].no > n =>
                          /\ i \notin cycle[c].loaded
                          /\ i \notin cycle[c].scannable
                          /\ \A k \in DOMAIN cycle[c].matches : cycle[c].matches[k].watch # i
                /\ \A k \in DOMAIN bookings :
                      bookings[k].watch_id = i => bookings[k].cycle <= n
                /\ \A k \in DOMAIN transport :
                      transport[k].watch_id = i => transport[k].cycle <= n
                /\ audit[i].scanned_by # NULL => audit[i].scanned_by[1] <= n

\* C8 witness: a cycle that started after a watch was booked is matching another
\* watch
C8_Witness ==
    \E i \in Ids, c \in Cadences :
        /\ watches[i].status = "booked"
        /\ audit[i].term_since # NULL
        /\ cycle[c].no > audit[i].term_since[1]
        /\ cycle[c].pc = "book"
        /\ i \notin cycle[c].loaded

\* C9: a failed booking attempt changes nothing of the watch: no row of the store
\* and no pending write changes, the status stays active and booked_at unset
C9_FailedBookingNoChange ==
    [][\A c \in Cadences :
          /\ cycle[c].pc = "book"
          /\ Len(bookings') = Len(bookings) + 1
          /\ ~bookings'[Len(bookings')].ok
          => /\ watches' = watches
             /\ cycle'[c].tx = cycle[c].tx
             /\ cycle'[c].booked = cycle[c].booked
             /\ cycle'[c].pc = "email"]_vars

\* C9 witness: after a failed booking attempt the watch, still active, was loaded
\* and attempted again by the next cycle
C9_Witness ==
    \E k1 \in DOMAIN bookings, k2 \in DOMAIN bookings :
        /\ bookings[k1].watch_id = bookings[k2].watch_id
        /\ bookings[k1].cycle < bookings[k2].cycle
        /\ ~bookings[k1].ok
        /\ watches[bookings[k1].watch_id].status = "active"
        /\ watches[bookings[k1].watch_id].booked_at = NULL

\* C10: the writes of one scan cycle are committed together or not at all: a cycle
\* that failed with an exception has left none of its writes in the store
C10_AllOrNothing ==
    \A c \in Cadences : cycle[c].outcome = "error" => cycle[c].committed = {}

\* C11: a malformed time string never aborts a scan cycle: the step that takes a
\* group's slots and matches them never ends the cycle with an error
C11_MalformedTimeNoAbort ==
    [][\A c \in Cadences :
          cycle[c].pc = "fetch" => cycle'[c].outcome # "error"]_vars

---------------------------------------------------------------------------
(* Specification of _fetch_inventory as a pure function                    *)

\* what one anchor query may give, failures inside the response included
FetchAnswers(anchor_hour) ==
    CASE anchor_hour = 12 -> {NoAnswer, Answer(<<>>), Answer(<<Slot801>>)}
      [] anchor_hour = 17 ->
            {NoAnswer, Answer(<<Slot600, Slot801>>),
             BrokenAnswer(<<Slot600, Slot801>>, 0), BrokenAnswer(<<Slot600, Slot801>>, 1)}
      [] OTHER ->
            {NoAnswer, Answer(<<Slot600>>), Answer(<<SlotBad>>),
             BrokenAnswer(<<Slot600>>, 0)}

\* location keys of the calls: two of LOCATIONS and one that is not
FetchLocations == {"peachtree", "west_paces", "closed"}

InitFetch ==
    /\ now = Instants[1]
    /\ watches = <<>>
    /\ userPhone = [u \in UserIds |-> ""]
    /\ nlog = <<>>
    /\ transport = <<>>
    /\ bookings = <<>>
    /\ cycle = [c \in Cadences |-> IdleCycle]
    /\ cyclesStarted = 0
    /\ faults = 0
    /\ audit = [i \in WatchIds |-> [term_since |-> NULL, scanned_by |-> NULL, normal_at |-> NULL]]
    /\ \E loc \in FetchLocations, a12 \in FetchAnswers(12), a17 \in FetchAnswers(17),
          a21 \in FetchAnswers(21) :
            tcase = [form |-> "fetch", loc_key |-> loc, answers |-> <<a12, a17, a21>>]
    /\ tres = NoResult
    /\ runs = NoRuns

\* one call of _fetch_inventory
fetch_call ==
    /\ ~tres.done
    /\ tres' = [done |-> TRUE,
                slots |-> fetch_inventory(tcase.loc_key, tcase.answers),
                requests |-> fetch_requests(tcase.loc_key)]
    /\ UNCHANGED <<now, watches, userPhone, nlog, transport, bookings, cycle,
                   cyclesStarted, faults, audit, tcase, runs>>

NextFetch == fetch_call

SpecFetch == InitFetch /\ [][NextFetch]_vars

C13_TerminalStatusKept ==
    [][\A i \in Ids :
          watches[i].status \in Terminal => watches'[i].status = watches[i].status]_vars


\* C14: a cancellation request changes the store only for a watch owned by the
\* requesting user, whose status it sets to cancelled and nothing else; for a watch
\* of another user or a missing watch it leaves every watch unchanged; cancelling a
\* cancelled watch leaves the store unchanged; no row is ever removed
C14_CancelOwnedOnly ==
    [][/\ DOMAIN watches' = DOMAIN watches
       /\ \A u \in Requesters, i \in WatchIds :
            delete_watch(u, i) =>
                /\ (i \notin Ids \/ watches[i].user_id # u) => watches' = watches
                /\ (i \in Ids /\ watches[i].user_id = u) =>
                      watches' = [watches EXCEPT ![i].status = "cancelled"]
                /\ (i \in Ids /\ watches[i].status = "cancelled") => watches' = watches]_vars

\* C14 witness: the watch of user 1 is cancelled while the watch of user 2 is still
\* active, although user 1 may ask for its cancellation at any time
C14_Witness ==
    /\ 2 \in Ids
    /\ watches[2].user_id = 1
    /\ watches[2].status = "cancelled"
    /\ watches[1].user_id = 2
    /\ watches[1].status = "active"


\* the step in which cadence c starts a cycle whose load succeeded
Loads(c) ==
    /\ cycle[c].pc = "idle"
    /\ cycle'[c].no > cycle[c].no
    /\ cycle'[c].outcome # "error"

---------------------------------------------------------------------------
(* Specification of what starts a scan cycle                                *)

\* request threads the sqlite server has at one time
MaxRequests == 2

\* instances the scheduler lets one job have: add_job is called without
\* max_instances
max_instances == 1

\* where a running scan cycle is: the expiry and the load, the inventory requests,
\* the writes and the commit
NextPhase(phase) ==
    CASE phase = "load" -> "fetch"
      [] phase = "fetch" -> "write"
      [] OTHER -> "done"

\* a list of running cycles after one step of its k-th
StepRun(list, k) ==
    IF NextPhase(list[k]) = "done"
    THEN SubSeq(list, 1, k - 1) \o SubSeq(list, k + 1, Len(list))
    ELSE [list EXCEPT ![k] = NextPhase(@)]

InitTriggers ==
    /\ now = Instants[1]
    /\ watches = <<>>
    /\ userPhone = [u \in UserIds |-> ""]
    /\ nlog = <<>>
    /\ transport = <<>>
    /\ bookings = <<>>
    /\ cycle = [c \in Cadences |-> IdleCycle]
    /\ cyclesStarted = 0
    /\ faults = 0
    /\ audit = [i \in WatchIds |-> [term_since |-> NULL, scanned_by |-> NULL, normal_at |-> NULL]]
    /\ tcase = NoCase
    /\ tres = NoResult
    /\ runs = NoRuns

TriggersFrame ==
    UNCHANGED <<now, watches, userPhone, nlog, transport, bookings, cycle,
                cyclesStarted, faults, audit, tcase, tres>>

\* worker.py: the interval trigger of the job scan_urgent or scan_normal fires; the
\* scheduler submits the run unless the job has max_instances instances running
JobDue(c) ==
    /\ runs' = IF Len(runs.job[c]) < max_instances
               THEN [runs EXCEPT !.job[c] = Append(@, "load")]
               ELSE runs
    /\ TriggersFrame

\* worker.py: a running scan_watches call of job c goes on, or returns
JobStep(c, k) ==
    /\ k \in DOMAIN runs.job[c]
    /\ runs' = [runs EXCEPT !.job[c] = StepRun(@, k)]
    /\ TriggersFrame

\* server.py scanner_loop: the sleep ends and the loop calls do_scan_watches
LoopWake ==
    /\ runs.loop = "sleep"
    /\ runs' = [runs EXCEPT !.loop = "load"]
    /\ TriggersFrame

\* server.py scanner_loop: its do_scan_watches call goes on, or returns and the
\* loop sleeps
LoopStep ==
    /\ runs.loop # "sleep"
    /\ runs' = [runs EXCEPT !.loop = IF NextPhase(@) = "done" THEN "sleep"
                                     ELSE NextPhase(@)]
    /\ TriggersFrame

\* server.py POST /api/watches/scan: the request's thread calls do_scan_watches
ScanRequest ==
    /\ Len(runs.handlers) < MaxRequests
    /\ runs' = [runs EXCEPT !.handlers = Append(@, "load")]
    /\ TriggersFrame

\* server.py POST /api/watches/scan: the call goes on, or returns and the request
\* is answered
HandlerStep(k) ==
    /\ k \in DOMAIN runs.handlers
    /\ runs' = [runs EXCEPT !.handlers = StepRun(@, k)]
    /\ TriggersFrame

NextTriggers ==
    \/ \E c \in Cadences : JobDue(c)
    \/ \E c \in Cadences, k \in 1..max_instances : JobStep(c, k)
    \/ LoopWake
    \/ LoopStep
    \/ ScanRequest
    \/ \E k \in 1..MaxRequests : HandlerStep(k)

SpecTriggers == InitTriggers /\ [][NextTriggers]_vars

\* C16: no two scan cycles of the same cadence run at the same time: each job of
\* the worker has at most one scan_watches call running, and the sqlite server,
\* whose cycles serve both cadences, has at most one do_scan_watches call running,
\* be it the scanner loop's or a scan request's
C16_NoOverlap ==
    /\ \A c \in Cadences : Len(runs.job[c]) <= 1
    /\ (IF runs.loop = "sleep" THEN 0 ELSE 1) + Len(runs.handlers) <= 1


\* C17: every transport call of notify_slot_found is recorded in notification_log
\* by the same step, as sent when the transport returned success and as failed
\* otherwise; a step that makes no transport call adds no record; records are
\* only ever appended
C17_EveryAttemptLogged ==
    [][/\ Len(nlog') >= Len(nlog)
       /\ SubSeq(nlog', 1, Len(nlog)) = nlog
       /\ transport' = transport => nlog' = nlog
       /\ transport' # transport =>
             LET call == transport'[Len(transport')]
             IN  nlog' = Append(nlog, [watch_id |-> call.watch_id,
                                       channel |-> call.channel,
                                       status |-> IF call.ok THEN "sent" ELSE "failed",
                                       created_at |-> call.at])]_vars


\* C18: expiry is idempotent: on the store an expiry leaves behind, a second
\* expiry finds no row to update and changes nothing; and whichever of a scan
\* cycle's expiry and the maintenance job's runs first, a step makes a watch
\* expired only when it was active and past its date
C18_ExpiryIdempotent ==
    [][LET today == Today(now)
           once  == ExpireUpdate(watches, today)
       IN  /\ ExpiredRows(once, today) = {}
           /\ ExpireUpdate(once, today) = once
           /\ \A i \in Ids :
                 watches'[i].status = "expired" /\ watches[i].status # "expired" =>
                     watches[i].status = "active" /\ watches[i].target_date < today
           /\ expire_watches /\ ExpiredRows(watches, today) = {} => watches' = watches]_vars

\* C18 witness: a watch is expired and a scan cycle, whose first statement is the
\* expiry, has started after it became so
C18_Witness ==
    \E i \in Ids :
        /\ watches[i].status = "expired"
        /\ audit[i].term_since # NULL
        /\ cyclesStarted > audit[i].term_since[1]


\* the step in which the cycle of cadence c commits and returns its result
Commits(c) ==
    /\ cycle[c].pc = "finish"
    /\ cycle'[c].pc = "idle"
    /\ cycle'[c].outcome = "ok"

\* C19: the commit of a scan cycle sets last_scanned of every watch the cycle
\* scanned, matched or not, to the time of the cycle, and nothing else ever
\* changes a last_scanned: not for a watch the cycle skipped or did not load
C19_LastScanned ==
    [][\A i \in Ids :
          /\ \A c \in Cadences :
                Commits(c) /\ i \in cycle[c].scannable =>
                    watches'[i].last_scanned = <<cycle[c].now_dt>>
          /\ watches'[i].last_scanned # watches[i].last_scanned =>
                \E c \in Cadences : Commits(c) /\ i \in cycle[c].scannable]_vars

\* C19 witness: a cycle that scanned two watches and notified nobody has committed
\* and both watches carry its time as last_scanned
C19_Witness ==
    \E c \in Cadences :
        /\ cycle[c].pc = "idle"
        /\ cycle[c].outcome = "ok"
        /\ cycle[c].scannable = {1, 2}
        /\ cycle[c].notified = 0
        /\ \A i \in {1, 2} : watches[i].last_scanned = <<now>>


\* the booking requests cycle number n has made so far
BookingsOf(n) == SelectSeq(bookings, LAMBDA r : r.cycle = n)

\* C20: when the notification of a match is handed to a transport, the booking
\* attempts of that match and of the matches before it, and no others, have been
\* made, and the notification says 'Auto-booked' exactly when the watch was
\* eligible and the attempt for that match succeeded, otherwise 'Available'
C20_BookThenNotify ==
    [][\A c \in Cadences :
          cycle[c].pc \in Channels /\ transport' # transport =>
              LET cy       == cycle[c]
                  call     == transport'[Len(transport')]
                  i        == cy.matches[cy.mi].watch
                  eligible == watches[i].auto_book /\ watches[i].book_first_name # ""
                                 /\ watches[i].book_phone # ""
                  attempts == BookingsOf(cy.no)
                  due      == {k \in 1..cy.mi :
                                  LET w == watches[cy.matches[k].watch]
                                  IN  w.auto_book /\ w.book_first_name # ""
                                         /\ w.book_phone # ""}
              IN  /\ call.watch_id = i
                  /\ Len(attempts) = Cardinality(due)
                  /\ eligible => attempts[Len(attempts)].watch_id = i
                  /\ call.action \in {"Auto-booked", "Available"}
                  /\ call.action = "Auto-booked" <=>
                        eligible /\ attempts[Len(attempts)].ok]_vars

\* C20 witness: one cycle has sent an 'Available' notification for a match whose
\* booking attempt failed and an 'Auto-booked' one for a later match whose attempt
\* succeeded
C20_Witness ==
    \E j, k \in DOMAIN transport :
        /\ j < k
        /\ transport[j].cycle = transport[k].cycle
        /\ transport[j].action = "Available"
        /\ transport[k].action = "Auto-booked"
        /\ Len(BookingsOf(transport[k].cycle)) = 2
        /\ ~BookingsOf(transport[k].cycle)[1].ok
        /\ BookingsOf(transport[k].cycle)[2].ok


\* C21: being notified is not terminal: the step that stores a notified_at leaves
\* the watch's status as it was unless the same cycle booked the watch, and a
\* cycle that starts scans every active watch its tier filter lets through,
\* whether or not the watch carries a notified_at
C21_NotifiedStaysActive ==
    [][\A i \in Ids :
          /\ watches'[i].notified_at # watches[i].notified_at =>
                /\ watches'[i].notified_at # NULL
                /\ \E c \in Cadences :
                      /\ cycle[c].pc # "idle"
                      /\ (\A k \in DOMAIN cycle[c].booked : cycle[c].booked[k] # i)
                            => watches'[i].status = watches[i].status
          /\ \A c \in Cadences :
                (/\ Loads(c)
                 /\ watches'[i].status = "active"
                 /\ watches'[i].notified_at # NULL
                 /\ ~Skipped(c, watches'[i], now))
                    => cycle'[c].pc = "fetch" /\ i \in cycle'[c].scannable]_vars

\* C21 witness: a watch is active with a notified_at stored by an earlier cycle,
\* and a later cycle has matched it again and handed a second notification to the
\* transport
C21_Witness ==
    \E i \in Ids, j, k \in DOMAIN transport :
        /\ watches[i].status = "active"
        /\ watches[i].notified_at # NULL
        /\ transport[j].watch_id = i
        /\ transport[k].watch_id = i
        /\ transport[j].cycle < transport[k].cycle
        /\ transport[j].at = watches[i].notified_at[1]
        /\ ~transport[j].booked


\* C22: the slot list _fetch_inventory returns for a group holds at most one slot
\* per display time, and that slot is the first one the anchor queries gave
C22_OneSlotPerDisplayTime ==
    tres.done /\ tcase.form = "fetch" =>
        /\ \A j, k \in DOMAIN tres.slots :
              tres.slots[j].time = tres.slots[k].time => j = k
        /\ LET a   == tcase.answers
               all == SubSeq(a[1].times, 1, a[1].read) \o SubSeq(a[2].times, 1, a[2].read)
                         \o SubSeq(a[3].times, 1, a[3].read)
           IN  tcase.loc_key \in LOCATIONS =>
                  \A k \in DOMAIN all :
                      (\A j \in 1..(k - 1) : all[j].time # all[k].time) =>
                          \E m \in DOMAIN tres.slots : tres.slots[m] = all[k]

---------------------------------------------------------------------------
(* Specification of overlapping scan cycles                                 *)

\* two clock readings a running cycle can span: one minute before and one minute
\* after the watch of the scenario is 24 hours from its target date
OverlapInstants == <<2 * MinutesPerDay - UrgentHours * 60 - 1,
                     2 * MinutesPerDay - UrgentHours * 60 + 1>>

\* one watch, created before the worker's first cycle
InitOverlap ==
    /\ now = OverlapInstants[1]
    /\ watches = Created(<<InBook>>).watches
    /\ userPhone = Created(<<InBook>>).userPhone
    /\ nlog = <<>>
    /\ transport = <<>>
    /\ bookings = <<>>
    /\ cycle = [c \in Cadences |-> IdleCycle]
    /\ cyclesStarted = 0
    /\ faults = 0
    /\ audit = [i \in WatchIds |-> [term_since |-> NULL, scanned_by |-> NULL, normal_at |-> NULL]]
    /\ tcase = NoCase
    /\ tres = NoResult
    /\ runs = NoRuns

\* time passes, also under a running cycle
TickOverlap ==
    /\ now = OverlapInstants[1]
    /\ now' = OverlapInstants[2]
    /\ UNCHANGED <<watches, userPhone, nlog, transport, bookings, cycle,
                   cyclesStarted, faults, audit, tcase, tres, runs>>

\* The two scan jobs run in the scheduler's thread pool: a cycle of one cadence
\* starts whether or not a cycle of the other is running, and the steps of the two
\* interleave: the dedup lookup and the send with its log insert are steps of
\* their own here
NextOverlap ==
    \/ TickOverlap
    \/ \E c \in Cadences : StartCycle(c, "none")
    \/ \E c \in Cadences, a12 \in AnchorAnswers(12), a17 \in AnchorAnswers(17),
          a21 \in AnchorAnswers(21), i \in WatchIds :
            /\ i \in Ids
            /\ FetchGroup(c, GroupKey(watches[i]), <<a12, a17, a21>>)
    \/ \E c \in Cadences, ok \in BOOLEAN, dberr \in BOOLEAN : Book(c, ok, dberr)
    \/ \E c \in Cadences, dbok \in BOOLEAN : Lookup(c, dbok)
    \/ \E c \in Cadences, ok \in BOOLEAN, logok \in BOOLEAN : Send(c, ok, logok)
    \/ \E c \in Cadences, dberr \in BOOLEAN : Mark(c, dberr)
    \/ \E c \in Cadences, dberr \in BOOLEAN : Finish(c, dberr)

SpecOverlap == InitOverlap /\ [][NextOverlap]_vars

\* C23: an urgent and a normal cycle that run at the same time never have the same
\* watch among the watches they scan
C23_DisjointCycles ==
    \A i \in Ids :
        ~(/\ cycle["urgent"].pc # "idle"
          /\ cycle["normal"].pc # "idle"
          /\ i \in cycle["urgent"].scannable
          /\ i \in cycle["normal"].scannable)

---------------------------------------------------------------------------
(* Specification of the thread pool of a cycle's inventory fetches          *)

\* groups a cycle has
MaxGroups == 11

\* ThreadPoolExecutor(max_workers=10)
max_workers == 10

PoolFrame ==
    UNCHANGED <<now, watches, userPhone, nlog, transport, bookings, cycle,
                cyclesStarted, faults, audit, tcase, tres>>

InitPool ==
    /\ now = Instants[1]
    /\ watches = <<>>
    /\ userPhone = [u \in UserIds |-> ""]
    /\ nlog = <<>>
    /\ transport = <<>>
    /\ bookings = <<>>
    /\ cycle = [c \in Cadences |-> IdleCycle]
    /\ cyclesStarted = 0
    /\ faults = 0
    /\ audit = [i \in WatchIds |-> [term_since |-> NULL, scanned_by |-> NULL, normal_at |-> NULL]]
    /\ tcase = NoCase
    /\ tres = NoResult
    /\ runs = NoRuns

\* line 230: the cycle has built n groups and opens the pool
PoolOpen(n) ==
    /\ runs.pool.phase = "idle"
    /\ runs' = [runs EXCEPT !.pool.phase = "submit", !.pool.groups = n]
    /\ PoolFrame

\* lines 232-234: pool.submit for the next group; after the last one the cycle
\* enters the as_completed loop
Submit ==
    /\ runs.pool.phase = "submit"
    /\ runs' = [runs EXCEPT
          !.pool.submitted = @ + 1,
          !.pool.queued = @ + 1,
          !.pool.phase = IF runs.pool.submitted + 1 = runs.pool.groups
                         THEN "collect" ELSE "submit"]
    /\ PoolFrame

\* a free worker thread of the pool takes a queued _fetch_inventory call
WorkerTake ==
    /\ runs.pool.queued > 0
    /\ runs.pool.running < max_workers
    /\ runs' = [runs EXCEPT !.pool.queued = @ - 1, !.pool.running = @ + 1]
    /\ PoolFrame

\* a _fetch_inventory call returns
FetchDone ==
    /\ runs.pool.running > 0
    /\ runs' = [runs EXCEPT !.pool.running = @ - 1, !.pool.completed = @ + 1]
    /\ PoolFrame

\* lines 235-248: as_completed yields a finished future and the cycle matches the
\* watches of its group against its slots
Collect ==
    /\ runs.pool.phase = "collect"
    /\ runs.pool.completed > 0
    /\ runs' = [runs EXCEPT !.pool.completed = @ - 1, !.pool.matched = @ + 1]
    /\ PoolFrame

\* variant: the cycle leaves the pool once every group is submitted
AllCollected_submitted(pool) == pool.submitted = pool.groups

\* as_completed is exhausted: every future was yielded
AllCollected(pool) == pool.matched = pool.groups

\* lines 230-250: the with block ends and the loop over the matches starts
Join ==
    /\ runs.pool.phase = "collect"
    /\ AllCollected(runs.pool)
    /\ runs' = [runs EXCEPT !.pool.phase = "process"]
    /\ PoolFrame

\* lines 253-273: the booking attempt and the notification of the next group's
\* matches
Process ==
    /\ runs.pool.phase = "process"
    /\ runs.pool.processed < runs.pool.groups
    /\ runs' = [runs EXCEPT !.pool.processed = @ + 1]
    /\ PoolFrame

NextPool ==
    \/ \E n \in 1..MaxGroups : PoolOpen(n)
    \/ Submit
    \/ WorkerTake
    \/ FetchDone
    \/ Collect
    \/ Join
    \/ Process

SpecPool == InitPool /\ [][NextPool]_vars

\* a fetch of the cycle is not finished: submitted and waiting, or running
FetchesPending == runs.pool.queued + runs.pool.running > 0

\* C24 as stated: at most 10 fetches run at once, matching starts only when the
\* fetches of all groups have completed, and no booking or notification starts
\* while a fetch is running
C24_FanInBeforeMatching ==
    /\ runs.pool.running <= 10
    /\ runs.pool.matched > 0 =>
          runs.pool.submitted = runs.pool.groups /\ ~FetchesPending
    /\ runs.pool.phase = "process" => ~FetchesPending

\* C24 amended: at most 10 fetches run at once; a group is matched only after its
\* own fetch completed, possibly while fetches of other groups are pending; the
\* booking attempts and notifications start only when every fetch has completed
\* and every group has been matched
C24_FanInBeforeProcessing ==
    /\ runs.pool.running <= 10
    /\ runs.pool.matched + runs.pool.completed + runs.pool.running + runs.pool.queued
          = runs.pool.submitted
    /\ runs.pool.phase = "process" =>
          /\ ~FetchesPending
          /\ runs.pool.completed = 0
          /\ runs.pool.matched = runs.pool.groups
    /\ runs.pool.processed > 0 => runs.pool.phase = "process"

\* C24 witness: 11 groups were submitted, 10 fetches are running and one waits
\* for a free thread
C24_Witness ==
    /\ runs.pool.groups = 11
    /\ runs.pool.running = 10
    /\ runs.pool.queued = 1


\* C25: a notification attempt for a watch and channel with a recipient makes no
\* transport call if and only if notification_log holds a record of that watch
\* and that channel with status sent created less than 60 minutes ago
C25_SuppressedIffSentInWindow ==
    [][\A c \in Cadences :
          cycle[c].pc \in Channels /\ cycle'[c].pc # cycle[c].pc =>
              LET ch == cycle[c].pc
                  i  == cycle[c].matches[cycle[c].mi].watch
                  recent == \E k \in DOMAIN nlog :
                               /\ nlog[k].watch_id = i
                               /\ nlog[k].channel = ch
                               /\ nlog[k].status = "sent"
                               /\ nlog[k].created_at > now - 60
              IN  HasRecipient(watches[i], cycle[c].user_phone, ch) =>
                      (transport' = transport <=> recent)]_vars


\* C26: a failure in the notification code (a delivery that fails, a dedup lookup
\* or a log insert that raises a database error) does not change what the cycle
\* commits: a cycle in which such a failure happened still ends with its commit
C26_NotifyFailureHarmless ==
    [][\A c \in Cadences :
          (/\ cycle[c].pc # "idle"
           /\ cycle'[c].pc = "idle"
           /\ faults' = faults
           /\ \E k \in DOMAIN transport : transport[k].cycle = cycle[c].no)
              => cycle'[c].outcome = "ok"]_vars


\* C27: once a booking request for a watch has succeeded, no further booking
\* request is made for that watch, so at most one succeeds
C27_OneBookingPerWatch ==
    \A j, k \in DOMAIN bookings :
        j < k /\ bookings[j].watch_id = bookings[k].watch_id => ~bookings[j].ok


\* C28: a booking request is made, and the status booked is written, only for a
\* watch whose stored status is active at that time: a watch cancelled or expired
\* after the cycle loaded it is neither booked nor turned into booked
C28_BookedOnlyFromActive ==
    [][/\ \A i \in Ids :
             watches'[i].status = "booked" /\ watches[i].status # "booked" =>
                 watches[i].status = "active"
       /\ bookings' # bookings =>
             watches[bookings'[Len(bookings')].watch_id].status = "active"]_vars


\* C29: after a successful booking, the notification step of that match hands an
\* 'Auto-booked' notification to the transport on every channel for which the
\* watch has a recipient, whatever was sent for the watch before
C29_BookingAlwaysAnnounced ==
    [][\A c \in Cadences :
          (/\ cycle[c].pc \in Channels
           /\ cycle'[c].pc # cycle[c].pc
           /\ cycle[c].was_booked
           /\ HasRecipient(watches[cycle[c].matches[cycle[c].mi].watch],
                           cycle[c].user_phone, cycle[c].pc))
              => /\ Len(transport') = Len(transport) + 1
                 /\ transport'[Len(transport')].action = "Auto-booked"
                 /\ transport'[Len(transport')].channel = cycle[c].pc]_vars


\* C30: notification_log never holds two records with status sent for the same
\* watch and channel created less than 60 minutes apart
C30_NoTwoSentInWindow ==
    \A j, k \in DOMAIN nlog :
        (/\ j < k
         /\ nlog[j].watch_id = nlog[k].watch_id
         /\ nlog[j].channel = nlog[k].channel
         /\ nlog[j].status = "sent"
         /\ nlog[k].status = "sent")
            => nlog[k].created_at - nlog[j].created_at >= 60

=============================================================================
